---- MODULE Spec2Model ----
(***************************************************************************)
(* A model of the FDA drug-approvals MCP server (src/fda_mcp_server.py).   *)
(*                                                                         *)
(* The state is a table of call slots.  A call is one invocation of        *)
(* handle_call_tool, handle_read_resource or handle_get_prompt; it runs    *)
(* as a coroutine whose only suspend points are its `await client.get`.    *)
(* One action starts a call and runs it to its first suspend point (or to  *)
(* its end), one action delivers the upstream's answer and runs it to the  *)
(* next suspend point (or to its end).                                     *)
(*                                                                         *)
(* Python values are kept by kind: an argument is absent, an integer or a  *)
(* string; str values that the code edits are sequences of characters;     *)
(* json.dumps is kept symbolic (a payload remembers the value it encodes). *)
(***************************************************************************)
EXTENDS Integers, Sequences, FiniteSets, TLC

VARIABLES calls

vars == <<calls>>

----------------------------------------------------------------------------
(* Bounds of the model.                                                    *)

\* the upstream holds 0..MaxAvail matching records, or a number near a cap
MaxAvail == 2
\* how far above a cap the upstream's record counts and the limits reach
MaxOver == 1
\* the length of the drug_list strings that are tried in full
MaxListLen == 3

----------------------------------------------------------------------------
(* Program constants.                                                      *)

EVENTS_REQUEST_CAP == 100
LABELS_REQUEST_CAP == 50
RECALLS_REQUEST_CAP == 100
EVENTS_DEFAULT_LIMIT == 10
LABELS_DEFAULT_LIMIT == 5
RECALLS_DEFAULT_LIMIT == 10
EVENTS_SCHEMA_MAX == 1000
LABELS_SCHEMA_MAX == 100
RECALLS_SCHEMA_MAX == 100
SCHEMA_MIN == 1
POPULAR_QUERIED == 3
POPULAR_LIMIT == 1
RESOURCE_LIMIT == 20

FDA_BASE_URL == "https://api.fda.gov/drug/event.json"
FDA_DRUG_LABEL_URL == "https://api.fda.gov/drug/label.json"
FDA_ENFORCEMENT_URL == "https://api.fda.gov/drug/enforcement.json"

ToolNames == {"search_drug_events", "get_drug_label_info", "search_drug_recalls"}
ResourceUris == {"fda://drug-events/recent", "fda://drug-labels/popular",
                 "fda://recalls/recent"}
PromptNames == {"analyze_drug_safety", "drug_comparison"}
popular_drugs == <<"aspirin", "ibuprofen", "acetaminophen", "metformin", "lisinopril">>

----------------------------------------------------------------------------
(* Python values and the built-ins the handlers use.                       *)

Absent == [t |-> "absent"]
IntV(n) == [t |-> "int", v |-> n]
StrV(s) == [t |-> "str", v |-> s]

Min(a, b) == IF a <= b THEN a ELSE b
Max(a, b) == IF a >= b THEN a ELSE b

\* seq[:n] of Python: a negative n counts from the end
PySlice(seq, n) ==
    IF n >= 0 THEN SubSeq(seq, 1, Min(n, Len(seq)))
    ELSE SubSeq(seq, 1, Max(Len(seq) + n, 0))

\* {} : the dict without keys
EmptyDict == <<>>

\* d.get(k, default) on a dict kept as a record
Get(d, k, default) == IF k \in DOMAIN d THEN d[k] ELSE default

\* "".join(chars): the str spelled by a sequence of characters
RECURSIVE Join(_)
Join(cs) == IF cs = <<>> THEN "" ELSE Head(cs) \o Join(Tail(cs))

\* s.startswith(old) on character sequences
StartsWith(s, old) == Len(s) >= Len(old) /\ SubSeq(s, 1, Len(old)) = old

\* s.replace(old, new) for a non-empty old: left to right, non-overlapping
RECURSIVE PyReplace(_, _, _)
PyReplace(s, old, new) ==
    IF s = <<>> THEN <<>>
    ELSE IF StartsWith(s, old)
         THEN new \o PyReplace(SubSeq(s, Len(old) + 1, Len(s)), old, new)
         ELSE <<Head(s)>> \o PyReplace(Tail(s), old, new)

\* an exception object: its class and str(e)
Exc(cls, msg) == [cls |-> cls, msg |-> msg]

\* every failure the handlers can meet is a subclass of Exception
ExceptionSubclasses == {"KeyError", "TypeError", "AttributeError", "ValueError",
                        "ConnectError", "HTTPStatusError", "JSONDecodeError"}

----------------------------------------------------------------------------
(* The upstream (openFDA): what an endpoint can answer to one GET.         *)

\* record i of the adverse-event endpoint; which fields it carries varies
EventRecord(i) ==
    CASE i % 3 = 1 ->
           [safetyreportid |-> ToString(i), receivedate |-> "20240115",
            serious |-> "1",
            patient |-> [patientonsetage |-> "60", patientsex |-> "2",
                         reaction |-> <<[reactionmeddrapt |-> "NAUSEA"]>>,
                         drug |-> <<[medicinalproduct |-> "ASPIRIN",
                                     drugindication |-> "PAIN"]>>]]
      [] i % 3 = 2 ->
           [safetyreportid |-> ToString(i),
            patient |-> [reaction |-> <<[reactionoutcome |-> "1"]>>,
                         drug |-> <<[medicinalproduct |-> "ASPIRIN"]>>]]
      [] OTHER ->
           [receivedate |-> "2024" \o ToString(i)]

\* record i of the label endpoint
LabelRecord(i) ==
    CASE i % 3 = 1 ->
           [openfda |-> [brand_name |-> <<"BRAND" \o ToString(i)>>,
                         generic_name |-> <<"GENERIC">>,
                         manufacturer_name |-> <<"MAKER">>,
                         substance_name |-> <<"SUBSTANCE">>,
                         product_type |-> <<"HUMAN OTC DRUG">>,
                         route |-> <<"ORAL">>],
            indications_and_usage |-> <<"USES">>,
            warnings |-> <<"WARNINGS">>,
            adverse_reactions |-> <<"REACTIONS">>,
            dosage_and_administration |-> <<"DOSAGE">>]
      [] i % 3 = 2 ->
           [openfda |-> [brand_name |-> <<"BRAND" \o ToString(i)>>],
            warnings |-> <<"WARNINGS" \o ToString(i)>>]
      [] OTHER ->
           [set_id |-> ToString(i)]

\* record i of the enforcement endpoint
RecallRecord(i) ==
    CASE i % 3 = 1 ->
           [recall_number |-> "D-" \o ToString(i),
            product_description |-> "ASPIRIN TABLETS",
            reason_for_recall |-> "LABELING",
            classification |-> "Class II",
            status |-> "Ongoing",
            recall_initiation_date |-> "20240110",
            recalling_firm |-> "FIRM",
            distribution_pattern |-> "Nationwide"]
      [] i % 3 = 2 ->
           [recall_number |-> "D-" \o ToString(i)]
      [] OTHER ->
           [product_description |-> "PRODUCT " \o ToString(i)]

\* the numbers of records the upstream may hold or send: few, or near a cap
AvailCounts ==
    (0..MaxAvail) \cup
    { cap + d : cap \in {LABELS_REQUEST_CAP, EVENTS_REQUEST_CAP,
                         2 * EVENTS_REQUEST_CAP},
                d \in 0..MaxOver }

MaxRecords == 2 * EVENTS_REQUEST_CAP + MaxOver + 1

EventDB == [i \in 1..MaxRecords |-> EventRecord(i)]
LabelDB == [i \in 1..MaxRecords |-> LabelRecord(i)]
RecallDB == [i \in 1..MaxRecords |-> RecallRecord(i)]

DBOf(url) ==
    CASE url = FDA_BASE_URL -> EventDB
      [] url = FDA_DRUG_LABEL_URL -> LabelDB
      [] OTHER -> RecallDB

\* a GET that was issued: its URL and its query parameters
Request(url, params) == [url |-> url, params |-> params]

\* what comes back: status 0 stands for no HTTP answer at all (network
\* failure); body is <<>> when the payload is not JSON, else <<the dict>>
Response(status, body) == [status |-> status, body |-> body]

\* the JSON of a successful search: n records out of avail matching ones
SearchBody(url, n, avail) ==
    [meta |-> [results |-> [total |-> avail]],
     results |-> SubSeq(DBOf(url), 1, n)]

\* a JSON answer that carries neither "results" nor a usable "meta"
BareBody == [meta |-> [disclaimer |-> "openFDA"]]

\* the number of records an upstream holding avail matches sends for a
\* request: the limit sent is honoured or ignored
SentCount(req, avail, honours) ==
    IF honours THEN Min(avail, Max(req.params.limit, 0)) ELSE avail

Responses(req) ==
    { Response(0, <<>>), Response(404, <<>>), Response(500, <<>>),
      Response(200, <<>>), Response(200, <<BareBody>>) } \cup
    { Response(200, <<SearchBody(req.url, SentCount(req, avail, h), avail)>>) :
          avail \in AvailCounts, h \in BOOLEAN }

----------------------------------------------------------------------------
(* What a coroutine does next: raise, suspend on a GET, or return.         *)

Raise(e) == [k |-> "raise", exc |-> e]
Await(req) == [k |-> "await", req |-> req]
Return(v) == [k |-> "return", value |-> v]

\* response = await client.get(...); response.raise_for_status();
\* data = response.json()   -- the data, or the exception raised
Fetched(resp) ==
    IF resp.status = 0
    THEN Raise(Exc("ConnectError", "All connection attempts failed"))
    ELSE IF resp.status \notin 200..299
    THEN Raise(Exc("HTTPStatusError", "HTTP status " \o ToString(resp.status)))
    ELSE IF resp.body = <<>>
    THEN Raise(Exc("JSONDecodeError", "Expecting value: line 1 column 1 (char 0)"))
    ELSE Return(resp.body[1])

\* data.get("meta", {}).get("results", {}).get("total", 0)
TotalResults(data) ==
    Get(Get(Get(data, "meta", EmptyDict), "results", EmptyDict), "total", 0)

\* the payloads of TextContent: a literal str, or json.dumps of a value
Str(s) == [str |-> s]
JsonDumps(v) == [json |-> v]
TextContent(text) == [type |-> "text", text |-> text]

\* CallToolResult(content=[...], isError=...); isError defaults to False
CallToolResult(content, isError) == [content |-> content, isError |-> isError]

----------------------------------------------------------------------------
(* The three tools.  Each is a coroutine with one suspend point:           *)
(* XStart runs it up to `await client.get`, XResume from there to its end. *)

\* arguments.get("limit", default)
LimitArg(arguments, default) ==
    IF arguments.limit.t = "absent" THEN IntV(default) ELSE arguments.limit

\* arguments["drug_name"] on a dict without that key
KeyErrorFor(key) == Exc("KeyError", "'" \o key \o "'")

\* min(limit, cap) on a limit that is no number
MinTypeError ==
    Exc("TypeError", "'<' not supported between instances of 'int' and 'str'")

\* `if date_range:` -- None and "" are false
Truthy(value) == value.t = "str" /\ value.v # <<>>

SEPARATOR == <<"_", "t", "o", "_">>

\* the separator replaced by "TO" without the blanks around it
C9_BareTo == <<"T", "O">>

SPACED_TO == <<" ", "T", "O", " ">>

\* params["search"] of _search_drug_events
EventsSearch(arguments) ==
    LET search_query ==
            "patient.drug.medicinalproduct:\"" \o arguments.drug_name.v \o "\""
    IN  IF Truthy(arguments.date_range)
        THEN search_query \o " AND receivedate:["
                 \o Join(PyReplace(arguments.date_range.v, SEPARATOR, SPACED_TO))
                 \o "]"
        ELSE search_query

\* the request limit is passed on as asked
C1_Uncapped(limit) == limit

\* params["limit"] of _search_drug_events
EventsRequestLimit(limit) == Min(limit, EVENTS_REQUEST_CAP)

EventsStart(arguments) ==
    IF arguments.drug_name.t = "absent" THEN Raise(KeyErrorFor("drug_name"))
    ELSE IF LimitArg(arguments, EVENTS_DEFAULT_LIMIT).t # "int" THEN Raise(MinTypeError)
    ELSE Await(Request(FDA_BASE_URL,
            [search |-> EventsSearch(arguments),
             limit |-> EventsRequestLimit(
                           LimitArg(arguments, EVENTS_DEFAULT_LIMIT).v)]))

ProcessEvent(event) ==
    LET patient == Get(event, "patient", EmptyDict)
        reaction == Get(patient, "reaction", <<>>)
        drug == Get(patient, "drug", <<>>)
    IN  [report_id |-> Get(event, "safetyreportid", "Unknown"),
         receive_date |-> Get(event, "receivedate", "Unknown"),
         serious |-> Get(event, "serious", "Unknown"),
         patient_age |-> Get(patient, "patientonsetage", "Unknown"),
         patient_sex |-> Get(patient, "patientsex", "Unknown"),
         reactions |-> [j \in 1..Len(reaction) |->
                           Get(reaction[j], "reactionmeddrapt", "Unknown")],
         drugs |-> [j \in 1..Len(drug) |->
                       [name |-> Get(drug[j], "medicinalproduct", "Unknown"),
                        indication |-> Get(drug[j], "drugindication", "Unknown")]]]

\* the records the output keeps: events[:limit]
EventsKept(events, limit) == PySlice(events, limit)

EventsResume(arguments, resp) ==
    LET f == Fetched(resp) IN
    IF f.k = "raise" THEN f
    ELSE
      LET data == f.value
          kept == EventsKept(Get(data, "results", <<>>),
                             LimitArg(arguments, EVENTS_DEFAULT_LIMIT).v)
          result == [total_results |-> TotalResults(data),
                     events |-> [i \in 1..Len(kept) |-> ProcessEvent(kept[i])]]
      IN  Return(CallToolResult(<<TextContent(JsonDumps(result))>>, FALSE))

\* the cap of the other two tools in place of 50
C8_CapOfHundred(limit) == Min(limit, 100)

\* params["limit"] of _get_drug_label_info
LabelsRequestLimit(limit) == Min(limit, LABELS_REQUEST_CAP)

LabelsSearch(drug) ==
    "openfda.brand_name:\"" \o drug \o "\" OR openfda.generic_name:\"" \o drug \o "\""

\* drug_name = arguments.get("drug_name", "") in place of arguments["drug_name"]
C12_LabelsStartLenient(arguments) ==
    IF LimitArg(arguments, LABELS_DEFAULT_LIMIT).t # "int" THEN Raise(MinTypeError)
    ELSE Await(Request(FDA_DRUG_LABEL_URL,
            [search |-> LabelsSearch(IF arguments.drug_name.t = "absent" THEN ""
                                     ELSE arguments.drug_name.v),
             limit |-> LabelsRequestLimit(LimitArg(arguments, LABELS_DEFAULT_LIMIT).v)]))

LabelsStart(arguments) ==
    IF arguments.drug_name.t = "absent" THEN Raise(KeyErrorFor("drug_name"))
    ELSE IF LimitArg(arguments, LABELS_DEFAULT_LIMIT).t # "int" THEN Raise(MinTypeError)
    ELSE Await(Request(FDA_DRUG_LABEL_URL,
            [search |-> LabelsSearch(arguments.drug_name.v),
             limit |-> LabelsRequestLimit(LimitArg(arguments, LABELS_DEFAULT_LIMIT).v)]))

ProcessLabel(label) ==
    LET openfda == Get(label, "openfda", EmptyDict)
    IN  [brand_names |-> Get(openfda, "brand_name", <<>>),
         generic_names |-> Get(openfda, "generic_name", <<>>),
         manufacturer |-> Get(openfda, "manufacturer_name", <<>>),
         substance_names |-> Get(openfda, "substance_name", <<>>),
         product_type |-> Get(openfda, "product_type", <<>>),
         route |-> Get(openfda, "route", <<>>),
         indications_and_usage |-> Get(label, "indications_and_usage", <<"Not available">>),
         warnings |-> Get(label, "warnings", <<"Not available">>),
         adverse_reactions |-> Get(label, "adverse_reactions", <<"Not available">>),
         dosage_and_administration |->
             Get(label, "dosage_and_administration", <<"Not available">>)]

\* the records the output keeps: labels[:limit]
LabelsKept(labels, limit) == PySlice(labels, limit)

LabelsResume(arguments, resp) ==
    LET f == Fetched(resp) IN
    IF f.k = "raise" THEN f
    ELSE
      LET data == f.value
          kept == LabelsKept(Get(data, "results", <<>>),
                             LimitArg(arguments, LABELS_DEFAULT_LIMIT).v)
          result == [total_results |-> TotalResults(data),
                     labels |-> [i \in 1..Len(kept) |-> ProcessLabel(kept[i])]]
      IN  Return(CallToolResult(<<TextContent(JsonDumps(result))>>, FALSE))

\* " AND ".join(search_parts) of _search_drug_recalls
RecallsSearch(arguments) ==
    LET first == "product_description:\"" \o arguments.drug_name.v \o "\""
    IN  IF arguments.classification.t = "str" /\ arguments.classification.v # ""
        THEN first \o " AND " \o "classification:\"" \o arguments.classification.v \o "\""
        ELSE first

\* params["limit"] of _search_drug_recalls
RecallsRequestLimit(limit) == Min(limit, RECALLS_REQUEST_CAP)

RecallsStart(arguments) ==
    IF arguments.drug_name.t = "absent" THEN Raise(KeyErrorFor("drug_name"))
    ELSE IF LimitArg(arguments, RECALLS_DEFAULT_LIMIT).t # "int" THEN Raise(MinTypeError)
    ELSE Await(Request(FDA_ENFORCEMENT_URL,
            [search |-> RecallsSearch(arguments),
             limit |-> RecallsRequestLimit(
                           LimitArg(arguments, RECALLS_DEFAULT_LIMIT).v)]))

ProcessRecall(recall) ==
    [recall_number |-> Get(recall, "recall_number", "Unknown"),
     product_description |-> Get(recall, "product_description", "Unknown"),
     reason_for_recall |-> Get(recall, "reason_for_recall", "Unknown"),
     classification |-> Get(recall, "classification", "Unknown"),
     status |-> Get(recall, "status", "Unknown"),
     recall_initiation_date |-> Get(recall, "recall_initiation_date", "Unknown"),
     firm_name |-> Get(recall, "recalling_firm", "Unknown"),
     distribution_pattern |-> Get(recall, "distribution_pattern", "Unknown")]

\* the output cut at the request cap: recalls[:min(limit, 100)]
C3_KeptToCap(recalls, limit) == PySlice(recalls, Min(limit, RECALLS_REQUEST_CAP))

\* the records the output keeps: recalls[:limit]
RecallsKept(recalls, limit) == PySlice(recalls, limit)

RecallsResume(arguments, resp) ==
    LET f == Fetched(resp) IN
    IF f.k = "raise" THEN f
    ELSE
      LET data == f.value
          kept == RecallsKept(Get(data, "results", <<>>),
                              LimitArg(arguments, RECALLS_DEFAULT_LIMIT).v)
          result == [total_results |-> TotalResults(data),
                     recalls |-> [i \in 1..Len(kept) |-> ProcessRecall(kept[i])]]
      IN  Return(CallToolResult(<<TextContent(JsonDumps(result))>>, FALSE))

\* handle_call_tool's if/elif chain, up to the first suspend point
ToolStart(name, arguments) ==
    CASE name = "search_drug_events" -> EventsStart(arguments)
      [] name = "get_drug_label_info" -> LabelsStart(arguments)
      [] name = "search_drug_recalls" -> RecallsStart(arguments)
      [] OTHER -> Raise(Exc("ValueError", "Unknown tool: " \o name))

ToolResume(name, arguments, resp) ==
    CASE name = "search_drug_events" -> EventsResume(arguments, resp)
      [] name = "get_drug_label_info" -> LabelsResume(arguments, resp)
      [] OTHER -> RecallsResume(arguments, resp)

\* `except ValueError as e` in place of `except Exception as e`
C2_CatchesValueErrorOnly == {"ValueError"}

\* `except Exception as e` of handle_call_tool: the classes it catches
ToolCatches == ExceptionSubclasses

\* the try/except of handle_call_tool around whatever the tool did
CallToolBoundary(o) ==
    IF o.k = "raise" /\ o.exc.cls \in ToolCatches
    THEN Return(CallToolResult(<<TextContent(Str("Error: " \o o.exc.msg))>>, TRUE))
    ELSE o

----------------------------------------------------------------------------
(* The three resources.                                                    *)

\* datetime.now() and thirty days before it, as strftime('%Y%m%d') spells them
Clock ==
    { [end_date |-> <<"2", "0", "2", "4", "0", "1", "3", "1">>,
       start_date |-> <<"2", "0", "2", "4", "0", "1", "0", "1">>],
      [end_date |-> <<"2", "0", "2", "4", "0", "3", "0", "1">>,
       start_date |-> <<"2", "0", "2", "4", "0", "1", "3", "1">>] }

RecentEventsStart(now) ==
    LET date_range == now.start_date \o SEPARATOR \o now.end_date
    IN  Await(Request(FDA_BASE_URL,
            [search |-> "receivedate:["
                          \o Join(PyReplace(date_range, SEPARATOR, SPACED_TO)) \o "]",
             limit |-> RESOURCE_LIMIT]))

\* return response.json()
RawResume(resp) == Fetched(resp)

RecentRecallsStart ==
    Await(Request(FDA_ENFORCEMENT_URL,
            [search |-> "product_type:Drugs",
             limit |-> RESOURCE_LIMIT,
             sort |-> "recall_initiation_date:desc"]))

\* the loop over the whole catalog
C6_WholeCatalog == popular_drugs

\* popular_drugs[:3]
PopularQueried == PySlice(popular_drugs, POPULAR_QUERIED)

PopularRequest(i) ==
    Request(FDA_DRUG_LABEL_URL,
            [search |-> LabelsSearch(PopularQueried[i]), limit |-> POPULAR_LIMIT])

\* all_labels = [] and the first iteration up to its `await client.get`
PopularStart ==
    [k |-> "await", req |-> PopularRequest(1), idx |-> 1, all_labels |-> <<>>]

\* the loop without its try/except
C5_CatchesNothing == {}

\* `except Exception as e` inside the loop: the classes it catches
PopularCatches == ExceptionSubclasses

\* all_labels after the try block of one iteration has met resp
PopularExtended(all_labels, resp) ==
    LET f == Fetched(resp) IN
    IF f.k = "raise" THEN all_labels
    ELSE IF Get(f.value, "results", <<>>) # <<>>
         THEN all_labels \o f.value.results
         ELSE all_labels

\* one iteration's end: the loop goes on to the next name or the call returns
PopularResume(idx, all_labels, resp) ==
    LET f == Fetched(resp) IN
    IF f.k = "raise" /\ f.exc.cls \notin PopularCatches THEN f
    ELSE IF idx < Len(PopularQueried)
         THEN [k |-> "await", req |-> PopularRequest(idx + 1), idx |-> idx + 1,
               all_labels |-> PopularExtended(all_labels, resp)]
         ELSE Return([results |-> PopularExtended(all_labels, resp)])

ResourceStart(uri, now) ==
    CASE uri = "fda://drug-events/recent" -> RecentEventsStart(now)
      [] uri = "fda://drug-labels/popular" -> PopularStart
      [] uri = "fda://recalls/recent" -> RecentRecallsStart
      [] OTHER -> Raise(Exc("ValueError", "Unknown resource URI: " \o uri))

ResourceResume(uri, idx, all_labels, resp) ==
    IF uri = "fda://drug-labels/popular"
    THEN PopularResume(idx, all_labels, resp)
    ELSE RawResume(resp)

ReadResourceResult(contents) == [contents |-> contents]

\* `except Exception as e` of handle_read_resource: the classes it catches
ResourceCatches == ExceptionSubclasses

\* the try/except of handle_read_resource, and the wrapping of the data
ReadResourceBoundary(o) ==
    IF o.k = "return"
    THEN Return(ReadResourceResult(<<TextContent(JsonDumps(o.value))>>))
    ELSE IF o.k = "raise" /\ o.exc.cls \in ResourceCatches
    THEN Return(ReadResourceResult(
             <<TextContent(Str("Error reading resource: " \o o.exc.msg))>>))
    ELSE o

----------------------------------------------------------------------------
(* The two prompts: pure templating, no suspend point.                     *)

\* arguments of get_prompt when the client sent none
None == [t |-> "none"]

NoneSubscriptError == Exc("TypeError", "'NoneType' object is not subscriptable")

\* the characters str.strip() removes
Whitespace == {" ", "\t", "\n", "\r"}

RECURSIVE LStrip(_)
LStrip(s) == IF s # <<>> /\ Head(s) \in Whitespace THEN LStrip(Tail(s)) ELSE s

RECURSIVE RStrip(_)
RStrip(s) ==
    IF s # <<>> /\ s[Len(s)] \in Whitespace THEN RStrip(SubSeq(s, 1, Len(s) - 1)) ELSE s

\* s.strip()
PyStrip(s) == RStrip(LStrip(s))

\* s.split(sep) for a one-character sep: one segment more than separators
RECURSIVE PySplit(_, _)
PySplit(s, sep) ==
    IF \A i \in 1..Len(s) : s[i] # sep THEN <<s>>
    ELSE LET i == CHOOSE i \in 1..Len(s) :
                      s[i] = sep /\ \A j \in 1..(i - 1) : s[j] # sep
         IN  <<SubSeq(s, 1, i - 1)>> \o PySplit(SubSeq(s, i + 1, Len(s)), sep)

\* the comprehension with a filter: [... if drug.strip()]
C11_DropEmpty(drug_list) ==
    LET segments == PySplit(drug_list, ",")
    IN  SelectSeq([i \in 1..Len(segments) |-> PyStrip(segments[i])],
                  LAMBDA t : t # <<>>)

\* drugs = [drug.strip() for drug in drug_list.split(",")]
DrugNames(drug_list) ==
    LET segments == PySplit(drug_list, ",")
    IN  [i \in 1..Len(segments) |-> PyStrip(segments[i])]

\* ', '.join(drugs)
RECURSIVE JoinedNames(_)
JoinedNames(drugs) ==
    IF drugs = <<>> THEN ""
    ELSE IF Len(drugs) = 1 THEN Join(drugs[1])
    ELSE Join(drugs[1]) \o ", " \o JoinedNames(Tail(drugs))

PromptMessage(role, content) == [role |-> role, content |-> content]
GetPromptResult(description, messages) ==
    [description |-> description, messages |-> messages]

\* prompt_text.strip() of _get_safety_analysis_prompt
SafetyPromptText(drug_name, focus_area) ==
        "Please analyze the safety profile of "
        \o drug_name
        \o " focusing on "
        \o focus_area
        \o ".\n"
        \o "\n"
        \o "Use the FDA MCP server tools to gather comprehensive data:\n"
        \o "\n"
        \o "1. Search for adverse event reports for "
        \o drug_name
        \o "\n"
        \o "2. Get drug labeling information for "
        \o drug_name
        \o "\n"
        \o "3. Check for any recalls or enforcement actions for "
        \o drug_name
        \o "\n"
        \o "\n"
        \o "Based on this data, provide:\n"
        \o "- Summary of reported adverse events and their frequency\n"
        \o "- Analysis of warnings and precautions from labeling\n"
        \o "- Any recall history and reasons\n"
        \o "- Risk-benefit assessment\n"
        \o "- Recommendations for monitoring\n"
        \o "\n"
        \o "Please ensure your analysis is evidence-based and cite specific FDA data sources."

SafetyPrompt(arguments) ==
    IF arguments = None THEN Raise(NoneSubscriptError)
    ELSE IF arguments.drug_name.t = "absent" THEN Raise(KeyErrorFor("drug_name"))
    ELSE LET drug_name == arguments.drug_name.v
             focus_area == IF arguments.focus_area.t = "absent"
                           THEN "general safety" ELSE arguments.focus_area.v
         IN  Return(GetPromptResult(
                 "Safety analysis prompt for " \o drug_name,
                 <<PromptMessage("user",
                     TextContent(Str(SafetyPromptText(drug_name, focus_area))))>>))

\* prompt_text.strip() of _get_drug_comparison_prompt
ComparisonPromptText(drugs) ==
        "Please compare the safety profiles of the following drugs: "
        \o JoinedNames(drugs)
        \o "\n"
        \o "\n"
        \o "For each drug, use the FDA MCP server tools to gather:\n"
        \o "1. Adverse event data\n"
        \o "2. Drug labeling information\n"
        \o "3. Recall history\n"
        \o "\n"
        \o "Create a comparative analysis including:\n"
        \o "- Side effect profiles comparison\n"
        \o "- Relative safety rankings\n"
        \o "- Different risk factors for each drug\n"
        \o "- Contraindications and warnings comparison\n"
        \o "- Historical recall patterns\n"
        \o "\n"
        \o "Present the comparison in a clear, structured format that helps understand the relative risks and benefits of each medication."

ComparisonPrompt(arguments) ==
    IF arguments = None THEN Raise(NoneSubscriptError)
    ELSE IF arguments.drug_list.t = "absent" THEN Raise(KeyErrorFor("drug_list"))
    ELSE LET drugs == DrugNames(arguments.drug_list.v)
         IN  [k |-> "return",
              value |-> GetPromptResult(
                 "Comparative analysis prompt for: " \o JoinedNames(drugs),
                 <<PromptMessage("user",
                     TextContent(Str(ComparisonPromptText(drugs))))>>),
              drugs |-> drugs]

PromptStart(name, arguments) ==
    CASE name = "analyze_drug_safety" -> SafetyPrompt(arguments)
      [] name = "drug_comparison" -> ComparisonPrompt(arguments)
      [] OTHER -> Raise(Exc("ValueError", "Unknown prompt: " \o name))

\* `except ValueError as e` in place of `except Exception as e`
C7_CatchesUnknownNameOnly == {"ValueError"}

\* `except Exception as e` of handle_get_prompt: the classes it catches
PromptCatches == ExceptionSubclasses

\* the try/except of handle_get_prompt
GetPromptBoundary(o) ==
    IF o.k = "raise" /\ o.exc.cls \in PromptCatches
    THEN Return(GetPromptResult(
             "Error getting prompt",
             <<PromptMessage("user", TextContent(Str("Error: " \o o.exc.msg)))>>))
    ELSE o

----------------------------------------------------------------------------
(* The input schemas handle_list_tools declares.                           *)

Digits == {"0", "1", "2", "3", "4", "5", "6", "7", "8", "9"}

\* "pattern": r"^\d{8}_to_\d{8}$"
MatchesDatePattern(s) ==
    /\ Len(s) = 20
    /\ \A i \in 1..8 : s[i] \in Digits
    /\ SubSeq(s, 9, 12) = SEPARATOR
    /\ \A i \in 13..20 : s[i] \in Digits

\* "enum": ["Class I", "Class II", "Class III"]
ClassificationEnum == {"Class I", "Class II", "Class III"}

\* "type": "integer", "minimum": 1, "maximum": max; not required
LimitInSchema(value, max) ==
    value.t = "absent" \/ (value.t = "int" /\ value.v \in SCHEMA_MIN..max)

SchemaMax(name) ==
    CASE name = "search_drug_events" -> EVENTS_SCHEMA_MAX
      [] name = "get_drug_label_info" -> LABELS_SCHEMA_MAX
      [] OTHER -> RECALLS_SCHEMA_MAX

\* the arguments conform to the inputSchema of tool `name`
SchemaValid(name, arguments) ==
    /\ arguments.drug_name.t = "str"
    /\ LimitInSchema(arguments.limit, SchemaMax(name))
    /\ name = "search_drug_events" =>
           \/ arguments.date_range.t = "absent"
           \/ arguments.date_range.t = "str"
                  /\ MatchesDatePattern(arguments.date_range.v)
    /\ name = "search_drug_recalls" =>
           \/ arguments.classification.t = "absent"
           \/ arguments.classification.t = "str"
                  /\ arguments.classification.v \in ClassificationEnum

----------------------------------------------------------------------------
(* The inputs the calls are made with.                                     *)

DrugNameInputs == {Absent, StrV("aspirin")}

LimitInts ==
    {-1} \cup (0..MaxAvail) \cup
    { cap + d : cap \in {LABELS_REQUEST_CAP, EVENTS_REQUEST_CAP,
                         2 * EVENTS_REQUEST_CAP, EVENTS_SCHEMA_MAX},
                d \in 0..MaxOver }

LimitInputs == {Absent, StrV("ten")} \cup { IntV(n) : n \in LimitInts }

JAN_01 == <<"2", "0", "2", "4", "0", "1", "0", "1">>
JAN_31 == <<"2", "0", "2", "4", "0", "1", "3", "1">>

DateRangeInputs ==
    { Absent,
      StrV(<<>>),
      StrV(JAN_01 \o SEPARATOR \o JAN_31),
      StrV(<<"1">> \o SEPARATOR \o <<"2">>),
      StrV(<<"2", "0", "2", "4">>),
      StrV(JAN_01 \o SPACED_TO \o JAN_31) }

ClassificationInputs == {Absent, StrV("Class I"), StrV("Class IV")}

ToolArguments(drug_name, limit, date_range, classification) ==
    [drug_name |-> drug_name, limit |-> limit, date_range |-> date_range,
     classification |-> classification]

UnknownTool == "get_drug_approvals"
ToolNameInputs == ToolNames \cup {UnknownTool}

ToolArgInputs(name) ==
    CASE name = "search_drug_events" ->
           { ToolArguments(d, l, r, Absent) :
                 d \in DrugNameInputs, l \in LimitInputs, r \in DateRangeInputs }
      [] name = "get_drug_label_info" ->
           { ToolArguments(d, l, Absent, Absent) :
                 d \in DrugNameInputs, l \in LimitInputs }
      [] name = "search_drug_recalls" ->
           { ToolArguments(d, l, Absent, c) :
                 d \in DrugNameInputs, l \in LimitInputs, c \in ClassificationInputs }
      [] OTHER ->
           { ToolArguments(StrV("aspirin"), Absent, Absent, Absent) }

UnknownUri == "fda://approvals/recent"
UriInputs == ResourceUris \cup {UnknownUri}

PromptArguments(drug_name, focus_area, drug_list) ==
    [drug_name |-> drug_name, focus_area |-> focus_area, drug_list |-> drug_list]

\* a letter, the separator and a blank
ListAlphabet == {"a", ",", " "}

DrugListInputs ==
    { Absent,
      StrV(<<"A", "s", "p", "i", "r", "i", "n", ",", " ", "i", "b", "u", "p", "r", "o", "f", "e", "n", " ", ",", "T", "y", "l", "e", "n", "o", "l">>),
      StrV(<<"a", ",", ",", " ", "b">>),
      StrV(<<>>) } \cup
    { StrV(s) : s \in UNION { [1..n -> ListAlphabet] : n \in 0..MaxListLen } }

UnknownPrompt == "summarize_drug"
PromptNameInputs == PromptNames \cup {UnknownPrompt}

PromptArgInputs(name) ==
    CASE name = "analyze_drug_safety" ->
           {None} \cup
           { PromptArguments(d, f, Absent) :
                 d \in DrugNameInputs, f \in {Absent, StrV("recalls")} }
      [] name = "drug_comparison" ->
           {None} \cup { PromptArguments(Absent, Absent, l) : l \in DrugListInputs }
      [] OTHER ->
           { PromptArguments(StrV("aspirin"), Absent, Absent) }

----------------------------------------------------------------------------
(* The calls.                                                              *)

NumSlots == 2
Slots == 1..NumSlots

\* a slot no call has been made in
IdleCall ==
    [family |-> "none", name |-> "", arguments |-> None, pc |-> "idle",
     requests |-> <<>>, responses |-> <<>>, idx |-> 0, all_labels |-> <<>>,
     drugs |-> <<>>, outcome |-> <<>>]

\* the GET a suspended call waits for
InFlight(call) == call.requests[Len(call.requests)]

\* the GETs of the three names are started together, ahead of their awaits
C13_IssuedAhead(call, o) ==
    IF /\ call.family = "resource"
       /\ call.name = "fda://drug-labels/popular"
       /\ o.idx < Len(PopularQueried)
    THEN Append(Append(call.requests, o.req), PopularRequest(o.idx + 1))
    ELSE Append(call.requests, o.req)

\* the GETs the call has sent once its coroutine is suspended on
\* `await client.get(...)`: the one it awaits is the only new one
Issued(call, o) == Append(call.requests, o.req)

\* the call after its coroutine ran to o: suspended on a GET, returned, or
\* left by an exception
Settle(call, o) ==
    CASE o.k = "await" ->
           [call EXCEPT !.pc = "await",
                        !.requests = Issued(call, o),
                        !.idx = Get(o, "idx", @),
                        !.all_labels = Get(o, "all_labels", @)]
      [] o.k = "return" ->
           [call EXCEPT !.pc = "returned", !.outcome = <<o.value>>,
                        !.drugs = Get(o, "drugs", @)]
      [] OTHER ->
           [call EXCEPT !.pc = "raised", !.outcome = <<o.exc>>]

\* one list kept on the server object and extended by every read
C10_SharedLabels(cs, c) ==
    cs[CHOOSE d \in DOMAIN cs :
           \A e \in DOMAIN cs : Len(cs[d].all_labels) >= Len(cs[e].all_labels)].all_labels

\* the list the popular-labels loop of call c extends: its own local
AllLabelsOf(cs, c) == cs[c].all_labels

Init == calls = [c \in Slots |-> IdleCall]

\* handle_call_tool(name, arguments), to its first suspend point or its end
CallTool(c, name, arguments) ==
    /\ calls[c].pc = "idle"
    /\ calls' = [calls EXCEPT ![c] =
           Settle([calls[c] EXCEPT !.family = "tool", !.name = name,
                                   !.arguments = arguments],
                  CallToolBoundary(ToolStart(name, arguments)))]

\* the upstream answers the GET of a tool call, which runs to its end
ToolResumes(c, resp) ==
    /\ calls[c].family = "tool"
    /\ calls[c].pc = "await"
    /\ calls' = [calls EXCEPT ![c] =
           Settle([calls[c] EXCEPT !.responses = Append(@, resp)],
                  CallToolBoundary(
                      ToolResume(calls[c].name, calls[c].arguments, resp)))]

\* what the read takes from the clock: only recent-events calls datetime.now()
ClockRead(uri, now) == IF uri = "fda://drug-events/recent" THEN now ELSE None

\* handle_read_resource(uri), to its first suspend point or its end
ReadResource(c, uri, now) ==
    /\ calls[c].pc = "idle"
    /\ calls' = [calls EXCEPT ![c] =
           Settle([calls[c] EXCEPT !.family = "resource", !.name = uri,
                                   !.arguments = ClockRead(uri, now)],
                  ReadResourceBoundary(ResourceStart(uri, now)))]

\* the upstream answers the GET of a resource read, which runs to its next
\* suspend point or to its end
ResourceResumes(c, resp) ==
    /\ calls[c].family = "resource"
    /\ calls[c].pc = "await"
    /\ calls' = [calls EXCEPT ![c] =
           Settle([calls[c] EXCEPT !.responses = Append(@, resp)],
                  ReadResourceBoundary(
                      ResourceResume(calls[c].name, calls[c].idx,
                                     AllLabelsOf(calls, c), resp)))]

\* handle_get_prompt(name, arguments)
GetPrompt(c, name, arguments) ==
    /\ calls[c].pc = "idle"
    /\ calls' = [calls EXCEPT ![c] =
           Settle([calls[c] EXCEPT !.family = "prompt", !.name = name,
                                   !.arguments = arguments],
                  GetPromptBoundary(PromptStart(name, arguments)))]

\* one call at a time, over the whole range of inputs and upstream answers
Next ==
    \E c \in {1} :
        \/ \E name \in ToolNameInputs : \E arguments \in ToolArgInputs(name) :
               CallTool(c, name, arguments)
        \/ /\ calls[c].pc = "await"
           /\ \E resp \in Responses(InFlight(calls[c])) : ToolResumes(c, resp)
        \/ \E uri \in UriInputs : \E now \in Clock : ReadResource(c, uri, now)
        \/ /\ calls[c].pc = "await"
           /\ \E resp \in Responses(InFlight(calls[c])) : ResourceResumes(c, resp)
        \/ \E name \in PromptNameInputs : \E arguments \in PromptArgInputs(name) :
               GetPrompt(c, name, arguments)

Spec == Init /\ [][Next]_vars

----------------------------------------------------------------------------
(* Concurrent calls: every slot may hold a call, and the calls interleave  *)
(* at their suspend points.  The inputs are few, so that the interleavings *)
(* of whole calls stay within reach.                                       *)

ConcToolNames == {"search_drug_events", UnknownTool}

ConcToolArgs(name) ==
    { ToolArguments(d, IntV(1), Absent, Absent) : d \in DrugNameInputs }

ConcUris == {"fda://drug-labels/popular", UnknownUri}

ConcPromptNames == {"analyze_drug_safety"}

ConcPromptArgs(name) ==
    { PromptArguments(d, Absent, Absent) : d \in DrugNameInputs }

\* a network failure, no record, or one record
ConcResponses(req) ==
    { Response(0, <<>>) } \cup
    { Response(200, <<SearchBody(req.url, n, n)>>) : n \in {0, 1} }

NextConc ==
    \E c \in Slots :
        \/ \E name \in ConcToolNames : \E arguments \in ConcToolArgs(name) :
               CallTool(c, name, arguments)
        \/ /\ calls[c].pc = "await"
           /\ \E resp \in ConcResponses(InFlight(calls[c])) : ToolResumes(c, resp)
        \/ \E uri \in ConcUris : \E now \in Clock : ReadResource(c, uri, now)
        \/ /\ calls[c].pc = "await"
           /\ \E resp \in ConcResponses(InFlight(calls[c])) : ResourceResumes(c, resp)
        \/ \E name \in ConcPromptNames : \E arguments \in ConcPromptArgs(name) :
               GetPrompt(c, name, arguments)

SpecConc == Init /\ [][NextConc]_vars

----------------------------------------------------------------------------
(* Reading a call's inputs and outputs.                                    *)

ToolCall(call, name) == call.family = "tool" /\ call.name = name

\* the call returned a CallToolResult that is not flagged as an error
ToolSucceeded(call) == call.pc = "returned" /\ ~call.outcome[1].isError

\* the value whose JSON encoding a successful call's one text item carries
ToolJson(call) == call.outcome[1].content[1].text.json

\* the limit the caller asked for: the argument, or the tool's default
RequestedLimit(call, default) ==
    IF call.arguments.limit.t = "absent" THEN default ELSE call.arguments.limit.v

HasIntLimit(call) == call.arguments.limit.t \in {"absent", "int"}

\* the JSON document of the i-th answer a call received
DataOf(call, i) == call.responses[i].body[1]

\* the records of the i-th answer a call received
RecordsOf(call, i) == Get(DataOf(call, i), "results", <<>>)

\* an answer that is a 2xx status with a JSON body
IsJsonAnswer(resp) == resp.status \in 200..299 /\ resp.body # <<>>

----------------------------------------------------------------------------
(* C1 *)

\* the upstream sent min(available, limit it was sent) records
C1_UpstreamHonest(call) ==
    Len(RecordsOf(call, 1)) =
        Min(TotalResults(DataOf(call, 1)), call.requests[1].params.limit)

C1_Case(call) ==
    /\ ToolCall(call, "search_drug_events")
    /\ ToolSucceeded(call)
    /\ HasIntLimit(call)
    /\ RequestedLimit(call, EVENTS_DEFAULT_LIMIT) \in SCHEMA_MIN..EVENTS_SCHEMA_MAX
    /\ C1_UpstreamHonest(call)

\* C1: a search_drug_events call with a valid limit L (1..1000) that completes
\* without error, against an upstream that sends min(available, limit sent)
\* records, returns exactly min(L, available, 100) events.
C1_EventCount ==
    \A c \in Slots :
        C1_Case(calls[c]) =>
            Len(ToolJson(calls[c]).events) =
                Min(RequestedLimit(calls[c], EVENTS_DEFAULT_LIMIT),
                    Min(TotalResults(DataOf(calls[c], 1)), 100))

\* a call asking for more than 100 of more than 100 available gets 100
C1_Witness ==
    \E c \in Slots :
        /\ C1_Case(calls[c])
        /\ RequestedLimit(calls[c], EVENTS_DEFAULT_LIMIT) > 100
        /\ TotalResults(DataOf(calls[c], 1)) > 100
        /\ Len(ToolJson(calls[c]).events) = 100

----------------------------------------------------------------------------
(* C2 *)

\* the failure a finished tool call met, as the caller can tell it from the
\* call's inputs and the upstream's answer; "" when it met none
C2_FailureMessage(call) ==
    IF call.name \notin ToolNames THEN "Unknown tool: " \o call.name
    ELSE IF call.arguments.drug_name.t = "absent" THEN "'drug_name'"
    ELSE IF call.arguments.limit.t = "str"
         THEN "'<' not supported between instances of 'int' and 'str'"
    ELSE IF call.responses[1].status = 0 THEN "All connection attempts failed"
    ELSE IF call.responses[1].status \notin 200..299
         THEN "HTTP status " \o ToString(call.responses[1].status)
    ELSE IF call.responses[1].body = <<>>
         THEN "Expecting value: line 1 column 1 (char 0)"
    ELSE ""

C2_IsErrorResult(call, message) ==
    /\ call.pc = "returned"
    /\ call.outcome[1].isError
    /\ Len(call.outcome[1].content) = 1
    /\ call.outcome[1].content[1].type = "text"
    /\ call.outcome[1].content[1].text = Str("Error: " \o message)

\* C2: no failure met while handling a tool call escapes handle_call_tool: the
\* call returns a result with isError set and exactly one text item carrying
\* the failure's message; for an unknown tool name the text holds "Unknown tool".
C2_FailuresBecomeErrorResults ==
    \A c \in Slots :
        calls[c].family = "tool" /\ calls[c].pc \in {"returned", "raised"} =>
            /\ calls[c].pc = "returned"
            /\ C2_FailureMessage(calls[c]) # "" =>
                   C2_IsErrorResult(calls[c], C2_FailureMessage(calls[c]))
            /\ calls[c].name \notin ToolNames =>
                   calls[c].outcome[1].content[1].text =
                       Str("Error: Unknown tool: " \o calls[c].name)

\* a tool call whose GET was answered with a non-2xx status returned an error
C2_Witness ==
    \E c \in Slots :
        /\ ToolCall(calls[c], "get_drug_label_info")
        /\ calls[c].pc = "returned"
        /\ calls[c].responses # <<>>
        /\ calls[c].responses[1].status = 500
        /\ C2_IsErrorResult(calls[c], "HTTP status 500")

----------------------------------------------------------------------------
(* C3 *)

C3_Case(call) ==
    /\ ToolCall(call, "search_drug_recalls")
    /\ call.arguments.limit.t = "int"
    /\ call.arguments.limit.v > 100
    /\ ToolSucceeded(call)

\* C3 as stated: a search_drug_recalls call with a limit above 100 sends limit
\* 100 upstream and returns at most 100 recalls, whatever number of records
\* the upstream's answer holds.
C3_AtMostHundred ==
    \A c \in Slots :
        C3_Case(calls[c]) =>
            /\ calls[c].requests[1].params.limit = 100
            /\ Len(ToolJson(calls[c]).recalls) <= 100

\* C3 amended: a search_drug_recalls call with a limit L above 100 sends limit
\* 100 upstream and returns the first min(L, n) of the n records the answer
\* holds: at most 100 when the upstream sent no more than the limit it was
\* sent, and never more than L.
C3_TruncatedToRequested ==
    \A c \in Slots :
        C3_Case(calls[c]) =>
            LET n == Len(RecordsOf(calls[c], 1))
                L == calls[c].arguments.limit.v
                recalls == ToolJson(calls[c]).recalls
            IN  /\ calls[c].requests[1].params.limit = 100
                /\ Len(recalls) = Min(L, n)
                /\ Len(recalls) <= L
                /\ n <= 100 => Len(recalls) <= 100

\* a call asking for 200 whose answer held more than 200 records returned 200
C3_Witness ==
    \E c \in Slots :
        /\ C3_Case(calls[c])
        /\ calls[c].arguments.limit.v = 200
        /\ Len(RecordsOf(calls[c], 1)) > 200
        /\ Len(ToolJson(calls[c]).recalls) = 200

----------------------------------------------------------------------------
(* C4 *)

\* C4: a tool call whose arguments violate the tool's input schema never
\* reaches the query builder and never causes an upstream request.
C4_ValidatedBeforeDispatch ==
    \A c \in Slots :
        /\ calls[c].family = "tool"
        /\ calls[c].name \in ToolNames
        /\ ~SchemaValid(calls[c].name, calls[c].arguments)
        => calls[c].requests = <<>>

----------------------------------------------------------------------------
(* C5 *)

PopularRead(call) ==
    call.family = "resource" /\ call.name = "fda://drug-labels/popular"

\* the records of the answers that succeeded, concatenated in request order
RECURSIVE C5_Concatenated(_)
C5_Concatenated(responses) ==
    IF responses = <<>> THEN <<>>
    ELSE (IF IsJsonAnswer(Head(responses))
          THEN Get(Head(responses).body[1], "results", <<>>)
          ELSE <<>>)
         \o C5_Concatenated(Tail(responses))

\* C5: whatever each of its requests met (success, empty result, HTTP error,
\* network failure), a read of the popular-drug-labels resource does not fail:
\* it returns the results of exactly the requests that succeeded, concatenated
\* in catalog order (an empty list when all three failed).
C5_FailuresAreSkipped ==
    \A c \in Slots :
        PopularRead(calls[c]) =>
            /\ calls[c].pc # "raised"
            /\ calls[c].pc = "returned" =>
                   /\ Len(calls[c].responses) = 3
                   /\ calls[c].outcome[1] =
                          ReadResourceResult(<<TextContent(JsonDumps(
                              [results |-> C5_Concatenated(calls[c].responses)]))>>)

\* the second request failed and the results of the first and the third are
\* both in the output
C5_Witness ==
    \E c \in Slots :
        /\ PopularRead(calls[c])
        /\ calls[c].pc = "returned"
        /\ IsJsonAnswer(calls[c].responses[1])
        /\ ~IsJsonAnswer(calls[c].responses[2])
        /\ IsJsonAnswer(calls[c].responses[3])
        /\ Len(RecordsOf(calls[c], 1)) = 1
        /\ Len(RecordsOf(calls[c], 3)) = 2
        /\ Len(calls[c].outcome[1].contents[1].text.json.results) = 3

\* all three requests failed and the output is the empty list
C5_WitnessAllFail ==
    \E c \in Slots :
        /\ PopularRead(calls[c])
        /\ calls[c].pc = "returned"
        /\ \A i \in 1..3 : ~IsJsonAnswer(calls[c].responses[i])
        /\ calls[c].outcome[1].contents[1].text.json.results = <<>>

----------------------------------------------------------------------------
(* C6 *)

C6_RequestFor(drug) ==
    [url |-> "https://api.fda.gov/drug/label.json",
     params |-> [search |-> "openfda.brand_name:\"" \o drug
                               \o "\" OR openfda.generic_name:\"" \o drug \o "\"",
                 limit |-> 1]]

C6_Expected ==
    <<C6_RequestFor("aspirin"), C6_RequestFor("ibuprofen"),
      C6_RequestFor("acetaminophen")>>

\* C6: a read of the popular-drug-labels resource issues at most 3 requests,
\* one per name for aspirin, ibuprofen and acetaminophen in turn, each with
\* limit 1, and none for metformin or lisinopril, whichever requests fail;
\* a read that has returned has issued all three.
C6_AtMostThreeRequests ==
    \A c \in Slots :
        PopularRead(calls[c]) =>
            /\ Len(calls[c].requests) <= 3
            /\ calls[c].requests = SubSeq(C6_Expected, 1, Len(calls[c].requests))
            /\ calls[c].pc = "returned" => calls[c].requests = C6_Expected

\* a read returned after its three requests, the last of which failed
C6_Witness ==
    \E c \in Slots :
        /\ PopularRead(calls[c])
        /\ calls[c].pc = "returned"
        /\ Len(calls[c].requests) = 3
        /\ calls[c].responses[3].status = 0

----------------------------------------------------------------------------
(* C7 *)

\* the failure a resource read met; "" when it met none.  A failing request
\* of the popular-labels read is no failure of the read.
C7_ReadFailure(call) ==
    IF call.name \notin ResourceUris THEN "Unknown resource URI: " \o call.name
    ELSE IF call.name = "fda://drug-labels/popular" THEN ""
    ELSE IF call.responses[1].status = 0 THEN "All connection attempts failed"
    ELSE IF call.responses[1].status \notin 200..299
         THEN "HTTP status " \o ToString(call.responses[1].status)
    ELSE IF call.responses[1].body = <<>>
         THEN "Expecting value: line 1 column 1 (char 0)"
    ELSE ""

\* the failure a get-prompt call met; "" when it met none
C7_PromptFailure(call) ==
    IF call.name \notin PromptNames THEN "Unknown prompt: " \o call.name
    ELSE IF call.arguments = None THEN "'NoneType' object is not subscriptable"
    ELSE IF call.name = "analyze_drug_safety" /\ call.arguments.drug_name.t = "absent"
         THEN "'drug_name'"
    ELSE IF call.name = "drug_comparison" /\ call.arguments.drug_list.t = "absent"
         THEN "'drug_list'"
    ELSE ""

C7_IsReadError(call, message) ==
    /\ Len(call.outcome[1].contents) = 1
    /\ call.outcome[1].contents[1] =
           [type |-> "text", text |-> Str("Error reading resource: " \o message)]

\* a prompt result is flagged as an error by its description
C7_IsPromptError(call, message) ==
    /\ call.outcome[1].description = "Error getting prompt"
    /\ Len(call.outcome[1].messages) = 1
    /\ call.outcome[1].messages[1].content =
           [type |-> "text", text |-> Str("Error: " \o message)]

\* C7: no failure of a read-resource or get-prompt call leaves its handler:
\* read-resource returns one text payload describing the error, get-prompt
\* returns a prompt result marked as an error (description "Error getting
\* prompt") whose single message text carries the failure's message.
C7_FailuresAreReturned ==
    \A c \in Slots :
        /\ calls[c].family = "resource" /\ calls[c].pc \in {"returned", "raised"} =>
               /\ calls[c].pc = "returned"
               /\ C7_ReadFailure(calls[c]) # "" =>
                      C7_IsReadError(calls[c], C7_ReadFailure(calls[c]))
        /\ calls[c].family = "prompt" /\ calls[c].pc \in {"returned", "raised"} =>
               /\ calls[c].pc = "returned"
               /\ C7_PromptFailure(calls[c]) # "" =>
                      C7_IsPromptError(calls[c], C7_PromptFailure(calls[c]))

\* a get-prompt call without its required argument returned the error result
C7_Witness ==
    \E c \in Slots :
        /\ calls[c].family = "prompt"
        /\ calls[c].name = "drug_comparison"
        /\ calls[c].pc = "returned"
        /\ calls[c].arguments # None
        /\ calls[c].arguments.drug_list.t = "absent"
        /\ C7_IsPromptError(calls[c], "'drug_list'")

\* a read of an unknown URI, and a read whose GET failed, returned the payload
C7_WitnessRead ==
    \E c \in Slots :
        /\ calls[c].family = "resource"
        /\ calls[c].name = "fda://recalls/recent"
        /\ calls[c].pc = "returned"
        /\ calls[c].responses[1].status = 404
        /\ C7_IsReadError(calls[c], "HTTP status 404")

----------------------------------------------------------------------------
(* C8 *)

\* a get_drug_label_info call that got as far as its GET, asked with a limit
\* that is a count
C8_Case(call) ==
    /\ ToolCall(call, "get_drug_label_info")
    /\ call.requests # <<>>
    /\ RequestedLimit(call, LABELS_DEFAULT_LIMIT) >= 0

\* C8: a get_drug_label_info call with requested limit L (a count, L >= 0)
\* sends limit min(L, 50) upstream, and its 'labels' are the projections of
\* the first L records of the upstream's answer (of all of them when it holds
\* fewer than L), in the upstream's order.
C8_LabelsAreFirstL ==
    \A c \in Slots :
        C8_Case(calls[c]) =>
            LET L == RequestedLimit(calls[c], LABELS_DEFAULT_LIMIT) IN
            /\ calls[c].requests[1].params.limit = (IF L <= 50 THEN L ELSE 50)
            /\ ToolSucceeded(calls[c]) =>
                   LET records == RecordsOf(calls[c], 1)
                       count == IF Len(records) < L THEN Len(records) ELSE L
                       labels == ToolJson(calls[c]).labels
                   IN  /\ Len(labels) = count
                       /\ \A i \in 1..count : labels[i] = ProcessLabel(records[i])

\* a call asking for 51 was sent 50 upstream and, the answer holding more
\* than 51 records, returned 51 labels
C8_Witness ==
    \E c \in Slots :
        /\ C8_Case(calls[c])
        /\ ToolSucceeded(calls[c])
        /\ RequestedLimit(calls[c], LABELS_DEFAULT_LIMIT) = 51
        /\ calls[c].requests[1].params.limit = 50
        /\ Len(RecordsOf(calls[c], 1)) > 51
        /\ Len(ToolJson(calls[c]).labels) = 51

----------------------------------------------------------------------------
(* C9 *)

C9_Base(call) ==
    "patient.drug.medicinalproduct:\"" \o call.arguments.drug_name.v \o "\""

\* the date_range argument is <start>_to_<end>, eight digits each
C9_HasForm(call) ==
    /\ call.arguments.date_range.t = "str"
    /\ MatchesDatePattern(call.arguments.date_range.v)

C9_Start(call) == SubSeq(call.arguments.date_range.v, 1, 8)
C9_End(call) == SubSeq(call.arguments.date_range.v, 13, 20)

\* C9: the search expression search_drug_events sends is
\* patient.drug.medicinalproduct:"<drug_name>", followed by
\* ' AND receivedate:[<start> TO <end>]' when a date_range <start>_to_<end> was
\* supplied, and by nothing when no date_range was supplied.
C9_SearchExpression ==
    \A c \in Slots :
        ToolCall(calls[c], "search_drug_events") /\ calls[c].requests # <<>> =>
            LET search == calls[c].requests[1].params.search IN
            /\ C9_HasForm(calls[c]) =>
                   search = C9_Base(calls[c]) \o " AND receivedate:["
                                \o Join(C9_Start(calls[c])) \o " TO "
                                \o Join(C9_End(calls[c])) \o "]"
            /\ calls[c].arguments.date_range.t = "absent" =>
                   search = C9_Base(calls[c])
            /\ calls[c].arguments.date_range = StrV(JAN_01 \o SEPARATOR \o JAN_31) =>
                   search = "patient.drug.medicinalproduct:\"aspirin\""
                                \o " AND receivedate:[20240101 TO 20240131]"

\* a call with date_range 20240101_to_20240131 has sent its request
C9_Witness ==
    \E c \in Slots :
        /\ ToolCall(calls[c], "search_drug_events")
        /\ calls[c].requests # <<>>
        /\ calls[c].arguments.date_range = StrV(JAN_01 \o SEPARATOR \o JAN_31)
        /\ calls[c].requests[1].params.search =
               "patient.drug.medicinalproduct:\"aspirin\""
                   \o " AND receivedate:[20240101 TO 20240131]"

----------------------------------------------------------------------------
(* C10 *)

\* the same call made in a server that handles no other call
C10_AloneStart(call) ==
    LET fresh == [IdleCall EXCEPT !.family = call.family, !.name = call.name,
                                  !.arguments = call.arguments]
    IN  CASE call.family = "tool" ->
               Settle(fresh, CallToolBoundary(ToolStart(call.name, call.arguments)))
          [] call.family = "resource" ->
               Settle(fresh, ReadResourceBoundary(
                                 ResourceStart(call.name, call.arguments)))
          [] OTHER ->
               Settle(fresh, GetPromptBoundary(PromptStart(call.name, call.arguments)))

C10_AloneResume(call, resp) ==
    LET fed == [call EXCEPT !.responses = Append(@, resp)]
        alone == [c \in {1} |-> call]
    IN  IF call.family = "tool"
        THEN Settle(fed, CallToolBoundary(
                             ToolResume(call.name, call.arguments, resp)))
        ELSE Settle(fed, ReadResourceBoundary(
                             ResourceResume(call.name, call.idx,
                                            AllLabelsOf(alone, 1), resp)))

\* the call run alone and given the answers in responses, in order
RECURSIVE C10_AloneFeed(_, _)
C10_AloneFeed(call, responses) ==
    IF responses = <<>> \/ call.pc # "await" THEN call
    ELSE C10_AloneFeed(C10_AloneResume(call, Head(responses)), Tail(responses))

C10_Alone(call) == C10_AloneFeed(C10_AloneStart(call), call.responses)

\* C10: however the calls interleave at their suspend points, each call is
\* where the same call, run alone with the same arguments and given the same
\* upstream answers to its own requests, would be: same requests, same
\* position, same result.
C10_CallsAreIndependent ==
    \A c \in Slots :
        calls[c].family # "none" => calls[c] = C10_Alone(calls[c])

\* two popular-labels reads are suspended in mid-loop at the same time, each
\* having collected labels of its own
C10_Witness ==
    \E c, d \in Slots :
        /\ c # d
        /\ PopularRead(calls[c]) /\ PopularRead(calls[d])
        /\ calls[c].pc = "await" /\ calls[d].pc = "await"
        /\ calls[c].idx = 3 /\ calls[d].idx = 2
        /\ Len(calls[c].all_labels) = 2 /\ Len(calls[d].all_labels) = 1

----------------------------------------------------------------------------
(* C11 *)

\* a drug_comparison call that got its drug_list and returned
C11_Case(call) ==
    /\ call.family = "prompt"
    /\ call.name = "drug_comparison"
    /\ call.pc = "returned"
    /\ call.arguments # None
    /\ call.arguments.drug_list.t = "str"

\* the places of the commas of s, and of the ends of s, in order
C11_Cuts(s) ==
    LET commas == { i \in 1..Len(s) : s[i] = "," }
        places == commas \cup {0, Len(s) + 1}
    IN  [k \in 1..Cardinality(places) |->
            CHOOSE p \in places : Cardinality({ q \in places : q < p }) = k - 1]

\* seg without the blanks at its two ends
C11_Trimmed(seg) ==
    LET kept == { i \in 1..Len(seg) : seg[i] \notin {" ", "\t", "\n", "\r"} }
    IN  IF kept = {} THEN <<>>
        ELSE SubSeq(seg, CHOOSE i \in kept : \A j \in kept : i <= j,
                         CHOOSE i \in kept : \A j \in kept : i >= j)

\* C11: the name list of drug_comparison has exactly one entry per
\* comma-separated segment of drug_list, in order, each the segment with the
\* whitespace at its ends removed, empty segments kept; "Aspirin, ibuprofen
\* ,Tylenol" yields ["Aspirin", "ibuprofen", "Tylenol"].
C11_NameList ==
    \A c \in Slots :
        C11_Case(calls[c]) =>
            LET s == calls[c].arguments.drug_list.v
                cuts == C11_Cuts(s)
                drugs == calls[c].drugs
            IN  /\ Len(drugs) = Cardinality({ i \in 1..Len(s) : s[i] = "," }) + 1
                /\ \A i \in 1..Len(drugs) :
                       drugs[i] = C11_Trimmed(SubSeq(s, cuts[i] + 1, cuts[i + 1] - 1))
                /\ Join(s) = "Aspirin, ibuprofen ,Tylenol" =>
                       /\ Len(drugs) = 3
                       /\ Join(drugs[1]) = "Aspirin"
                       /\ Join(drugs[2]) = "ibuprofen"
                       /\ Join(drugs[3]) = "Tylenol"

\* the call with "Aspirin, ibuprofen ,Tylenol" returned its prompt
C11_Witness ==
    \E c \in Slots :
        /\ C11_Case(calls[c])
        /\ Join(calls[c].arguments.drug_list.v) = "Aspirin, ibuprofen ,Tylenol"
        /\ Len(calls[c].drugs) = 3
        /\ calls[c].outcome[1].description =
               "Comparative analysis prompt for: Aspirin, ibuprofen, Tylenol"

\* a call whose drug_list has an empty segment kept it as an empty name
C11_WitnessEmpty ==
    \E c \in Slots :
        /\ C11_Case(calls[c])
        /\ Join(calls[c].arguments.drug_list.v) = "a,, b"
        /\ Len(calls[c].drugs) = 3
        /\ calls[c].drugs[2] = <<>>

----------------------------------------------------------------------------
(* C12 *)

\* the message of the validation failure of a call, "" when its inputs have none
C12_ValidationMessage(call) ==
    CASE call.family = "tool" /\ call.name \notin ToolNames ->
             "Unknown tool: " \o call.name
      [] call.family = "tool" /\ call.name \in ToolNames
                              /\ call.arguments.drug_name.t = "absent" ->
             "'drug_name'"
      [] call.family = "resource" /\ call.name \notin ResourceUris ->
             "Unknown resource URI: " \o call.name
      [] call.family = "prompt" /\ call.name \notin PromptNames ->
             "Unknown prompt: " \o call.name
      [] OTHER -> ""

\* the error response of the family of the call, carrying the message
C12_ErrorResponse(call, message) ==
    /\ call.pc = "returned"
    /\ CASE call.family = "tool" ->
              /\ call.outcome[1].isError
              /\ call.outcome[1].content = <<TextContent(Str("Error: " \o message))>>
         [] call.family = "resource" ->
              call.outcome[1].contents =
                  <<TextContent(Str("Error reading resource: " \o message))>>
         [] OTHER ->
              /\ call.outcome[1].description = "Error getting prompt"
              /\ call.outcome[1].messages[1].content =
                     TextContent(Str("Error: " \o message))

\* C12: a call with an unknown tool name, an unknown resource URI or an
\* unknown prompt name, and a tool call without drug_name, has its error
\* response as soon as it is made and has issued no upstream request.
C12_ValidationBeforeIO ==
    \A c \in Slots :
        C12_ValidationMessage(calls[c]) # "" =>
            /\ C12_ErrorResponse(calls[c], C12_ValidationMessage(calls[c]))
            /\ calls[c].requests = <<>>
            /\ calls[c].responses = <<>>

\* C12, as steps: the step that makes such a call ends it, and no later step
\* issues a request for it
C12_NoRequestIssued ==
    [][\A c \in Slots :
           C12_ValidationMessage(calls[c]') # "" =>
               /\ calls[c]'.pc = "returned"
               /\ calls[c]'.requests = <<>>]_vars

\* a tool call without drug_name has its error and has issued no request
C12_Witness ==
    \E c \in Slots :
        /\ calls[c].family = "tool"
        /\ calls[c].name \in ToolNames
        /\ calls[c].arguments.drug_name.t = "absent"
        /\ C12_ErrorResponse(calls[c], "'drug_name'")
        /\ calls[c].requests = <<>>

\* a read of an unknown URI has its error and has issued no request
C12_WitnessUnknown ==
    \E c \in Slots :
        /\ calls[c].family = "resource"
        /\ calls[c].name \notin ResourceUris
        /\ C12_ErrorResponse(calls[c], "Unknown resource URI: " \o calls[c].name)
        /\ calls[c].requests = <<>>

----------------------------------------------------------------------------
(* C13 *)

\* the GETs of the call that have been sent and have not yet been answered
\* or failed
C13_InFlight(call) == Len(call.requests) - Len(call.responses)

\* C13: within one read of the popular-drug-labels resource the requests are
\* issued one after the other in catalog order: every request but the last
\* issued has completed (answered or failed), so the read has at most one
\* request in flight, and exactly one while it is suspended.
C13_OneRequestInFlight ==
    \A c \in Slots :
        PopularRead(calls[c]) =>
            /\ C13_InFlight(calls[c]) \in {0, 1}
            /\ C13_InFlight(calls[c]) = 1 <=> calls[c].pc = "await"
            /\ \A i \in 1..Len(calls[c].requests) :
                   /\ calls[c].requests[i].params.search = LabelsSearch(popular_drugs[i])
                   /\ i < Len(calls[c].requests) => i \in DOMAIN calls[c].responses

\* C13, as steps: a step of the read issues at most one request, and issues
\* it only when every request issued before has completed
C13_IssuedAfterCompletion ==
    [][\A c \in Slots :
           PopularRead(calls[c]') /\ Len(calls[c]'.requests) > Len(calls[c].requests) =>
               /\ Len(calls[c]'.requests) = Len(calls[c].requests) + 1
               /\ Len(calls[c]'.responses) = Len(calls[c].requests)]_vars

\* the read is suspended on its third request, after the first failed and
\* the second was answered
C13_Witness ==
    \E c \in Slots :
        /\ PopularRead(calls[c])
        /\ calls[c].pc = "await"
        /\ Len(calls[c].requests) = 3
        /\ Len(calls[c].responses) = 2
        /\ calls[c].responses[1].status = 0
        /\ IsJsonAnswer(calls[c].responses[2])

====
